---- MODULE Spec2Model ----
(***************************************************************************)
(* Model of libreoffice.py: the AppContext (connection handle, document    *)
(* store, id counter), the app_lifespan start-up / shutdown path and the   *)
(* MCP tools that look documents up in the store.                          *)
(*                                                                         *)
(* Python objects are tuples: None is <<>>, a loader is <<"Lo", n>> (the   *)
(* n-th connection attempt produced it), a document object is              *)
(* <<class, h>> where class is the Python class of the object and h the    *)
(* identity of the remote document.                                        *)
(***************************************************************************)
EXTENDS Naturals, Sequences, FiniteSets, TLC

VARIABLES phase, loader, documents, next_id, made, remoteOpen,
          attempts, teardowns, todo, pos, issued, last, given, tpc, tloc

vars == <<phase, loader, documents, next_id, made, remoteOpen,
          attempts, teardowns, todo, pos, issued, last, given, tpc, tloc>>

(* ------------------------------ bounds --------------------------------- *)
MaxDocs == 2
MaxAttempts == 3
MaxCells == 2

(* ------------------------------ values --------------------------------- *)
None == <<>>

Loader(n) == <<"Lo", n>>

Doc(cls, h) == <<cls, h>>

ClassOf(doc) == doc[1]

\* a format string that lost its placeholder
DocId_fixed(n) == "doc_" \o ToString(0)

\* f"doc_{app_ctx.next_id}"
DocId(n) == "doc_" \o ToString(n)

\* the doc_types table of open_document / new_document: key -> class of the
\* object stored ("base" stores the raw component returned by Lo)
doc_types == [writer |-> "WriteDoc", calc |-> "CalcDoc", draw |-> "DrawDoc",
              impress |-> "DrawDoc", base |-> "XComponent"]

\* doc_type arguments a caller may send ("pdf" is not a key of doc_types)
DocTypeArgs == {"writer", "calc", "draw", "impress", "base", "pdf"}

\* doc_id arguments a caller may send: every id the counter can produce, one
\* beyond them, and a string of another shape
IdArgs == {DocId(k) : k \in 0..MaxDocs} \cup {"bogus"}

(* --------------------------- AppContext -------------------------------- *)
get_document(docs, doc_id) == IF doc_id \in DOMAIN docs THEN docs[doc_id] ELSE None

add_document(docs, doc_id, doc) ==
    [x \in DOMAIN docs \cup {doc_id} |-> IF x = doc_id THEN doc ELSE docs[x]]

remove_document(docs, doc_id) == [x \in DOMAIN docs \ {doc_id} |-> docs[x]]

\* Python truthiness of what get_document returns (`if not doc`)
Falsy(doc) == doc = None

\* list(app_ctx.documents.keys()): a dict lists its keys in insertion order,
\* and keys are only ever inserted as doc_0, doc_1, ... in that order
RECURSIVE KeysFrom(_, _)
KeysFrom(docs, k) ==
    IF k >= next_id THEN <<>>
    ELSE IF DocId(k) \in DOMAIN docs THEN <<DocId(k)>> \o KeysFrom(docs, k + 1)
    ELSE KeysFrom(docs, k + 1)

KeysList(docs) == KeysFrom(docs, 0)

\* what one invocation left behind for its caller:
\*   tool, arg : the operation and its doc_id / doc_type argument
\*   ok, err   : returned normally, or the raise statement that ended it
\*               (named by its message; the module never binds the name
\*               RuntimeException, so what surfaces from such a statement
\*               is the NameError raised while evaluating it; "remote" is
\*               an exception of the engine that no handler caught)
\*   ret       : the returned value (None when nothing of interest)
\*   target    : the document object the operation body ran against
\*   remote    : number of calls made to the remote engine
Outcome(tool, arg, ok, err, ret, target, remote) ==
    [tool |-> tool, arg |-> arg, ok |-> ok, err |-> err, ret |-> ret,
     target |-> target, remote |-> remote]

NoCall == Outcome("none", "", TRUE, "", None, None, 0)

\* what the last call was given besides its doc_id:
\*   text  : <<t>> when the tool takes a cell / range text t (a sequence of
\*           characters), <<>> when it takes none
\*   cells : the values the engine handed back for the cells of the range
Input(text, cells) == [text |-> text, cells |-> cells]

NoInput == Input(<<>>, <<>>)

\* cell / range texts a caller may send: "", "A0", "A1", "C10:A1"
AddrArgs == {<<>>, <<"A", "0">>, <<"A", "1">>, <<"C", "1", "0", ":", "A", "1">>}

\* values of a cell as Python sees them: a float, or a str
CellValues == {<<"float", 1>>, <<"float", 2>>, <<"str">>}

\* the threads of the request transport, the position of each in the tool it
\* runs and its local variables
Threads == {1, 2}

Idle == [t \in Threads |-> "idle"]

NoLocals == [t \in Threads |-> [tool |-> "", arg |-> "", doc |-> None, doc_id |-> "", tmp |-> 0]]



Init ==
    /\ phase = "start"
    /\ loader = None
    /\ documents = [x \in {} |-> None]
    /\ next_id = 0
    /\ made = 0
    /\ remoteOpen = {}
    /\ attempts = 0
    /\ teardowns = 0
    /\ todo = <<>>
    /\ pos = 0
    /\ issued = <<>>
    /\ last = NoCall
    /\ given = NoInput
    /\ tpc = Idle
    /\ tloc = NoLocals

(* ------------------------ connection manager --------------------------- *)
\* a start_office that logs the failure and returns instead of re-raising
start_office_swallow(ld, n, reach) ==
    IF ld = None
    THEN IF reach
         THEN [loader |-> Loader(n + 1), raised |-> FALSE, ret |-> Loader(n + 1), calls |-> 1]
         ELSE [loader |-> None, raised |-> FALSE, ret |-> None, calls |-> 1]
    ELSE [loader |-> ld, raised |-> FALSE, ret |-> ld, calls |-> 0]

\* a start_office without the `if self.loader is None` test
start_office_always(ld, n, reach) ==
    IF reach
    THEN [loader |-> Loader(n + 1), raised |-> FALSE, ret |-> Loader(n + 1), calls |-> 1]
    ELSE [loader |-> ld, raised |-> TRUE, ret |-> None, calls |-> 1]

\* AppContext.start_office: ld is self.loader, n the number of connection
\* attempts made so far, reach whether Lo.load_office gets an answer.
\* Result: the new self.loader, whether the call raised, the value returned
\* and the number of Lo.load_office calls it made.
start_office(ld, n, reach) ==
    IF ld = None
    THEN IF reach
         THEN [loader |-> Loader(n + 1), raised |-> FALSE, ret |-> Loader(n + 1), calls |-> 1]
         ELSE [loader |-> None, raised |-> TRUE, ret |-> None, calls |-> 1]
    ELSE [loader |-> ld, raised |-> FALSE, ret |-> ld, calls |-> 0]

\* a close_office without the `if self.loader is not None` test
close_office_always(ld) == [loader |-> None, calls |-> 1]

\* AppContext.close_office: Lo.close_office() reports failure through its
\* boolean result, which the caller drops
close_office(ld) ==
    IF ld # None
    THEN [loader |-> None, calls |-> 1]
    ELSE [loader |-> ld, calls |-> 0]

(* --------------------------- registration ------------------------------ *)
\* a registration that names the document after the size of the store
Register_len(docs, n, doc) ==
    [documents |-> add_document(docs, DocId(Cardinality(DOMAIN docs)), doc),
     next_id |-> n + 1,
     doc_id |-> DocId(Cardinality(DOMAIN docs))]

\* a registration that increments the counter before formatting the id
Register_late(docs, n, doc) ==
    [documents |-> add_document(docs, DocId(n + 1), doc),
     next_id |-> n + 1,
     doc_id |-> DocId(n + 1)]

\* doc_id = f"doc_{next_id}"; next_id += 1; add_document(doc_id, doc)
Register(docs, n, doc) ==
    [documents |-> add_document(docs, DocId(n), doc),
     next_id |-> n + 1,
     doc_id |-> DocId(n)]

ServerState == <<phase, loader, attempts, teardowns, todo, pos>>

\* an open / create that takes the identifier before the remote call, so a
\* failed call has consumed it
OpenOrNew_eager(tool, failure) ==
    /\ phase = "serving"
    /\ \E doc_type \in DocTypeArgs, raises \in BOOLEAN :
        IF doc_type \notin DOMAIN doc_types
        THEN /\ last' = Outcome(tool, doc_type, FALSE, "Invalid document type", None, None, 0)
             /\ UNCHANGED <<documents, next_id, made, remoteOpen, issued>>
        ELSE IF raises
        THEN /\ next_id < MaxDocs
             /\ next_id' = next_id + 1
             /\ last' = Outcome(tool, doc_type, FALSE, failure, None, None, 1)
             /\ UNCHANGED <<documents, made, remoteOpen, issued>>
        ELSE /\ next_id < MaxDocs
             /\ LET doc == Doc(doc_types[doc_type], made + 1)
                    reg == Register(documents, next_id, doc)
                IN /\ documents' = reg.documents
                   /\ next_id' = reg.next_id
                   /\ issued' = Append(issued, reg.doc_id)
                   /\ last' = Outcome(tool, doc_type, TRUE, "", reg.doc_id, None, 1)
             /\ made' = made + 1
             /\ remoteOpen' = remoteOpen \cup {made + 1}
    /\ UNCHANGED ServerState
    /\ UNCHANGED <<tpc, tloc>>
    /\ given' = NoInput

\* the common body of open_document and new_document; raises says whether
\* the remote open / create call raised
OpenOrNew(tool, failure) ==
    /\ phase = "serving"
    /\ \E doc_type \in DocTypeArgs, raises \in BOOLEAN :
        IF doc_type \notin DOMAIN doc_types
        THEN /\ last' = Outcome(tool, doc_type, FALSE, "Invalid document type", None, None, 0)
             /\ UNCHANGED <<documents, next_id, made, remoteOpen, issued>>
        ELSE IF raises
        THEN /\ last' = Outcome(tool, doc_type, FALSE, failure, None, None, 1)
             /\ UNCHANGED <<documents, next_id, made, remoteOpen, issued>>
        ELSE /\ next_id < MaxDocs
             /\ LET doc == Doc(doc_types[doc_type], made + 1)
                    reg == Register(documents, next_id, doc)
                IN /\ documents' = reg.documents
                   /\ next_id' = reg.next_id
                   /\ issued' = Append(issued, reg.doc_id)
                   /\ last' = Outcome(tool, doc_type, TRUE, "", reg.doc_id, None, 1)
             /\ made' = made + 1
             /\ remoteOpen' = remoteOpen \cup {made + 1}
    /\ UNCHANGED ServerState
    /\ UNCHANGED <<tpc, tloc>>
    /\ given' = NoInput

open_document == OpenOrNew("open_document", "Failed to open document")

new_document == OpenOrNew("new_document", "Failed to create new document")

\* a close_document without the `if not doc` test: None.close_doc() raises
\* inside the try
CloseDocument_nocheck(doc_id, raises) ==
    LET doc == get_document(documents, doc_id) IN
    IF Falsy(doc) \/ raises
    THEN /\ last' = Outcome("close_document", doc_id, FALSE, "Failed to close document", None, doc, 1)
         /\ UNCHANGED <<documents, remoteOpen>>
    ELSE /\ documents' = remove_document(documents, doc_id)
         /\ remoteOpen' = remoteOpen \ {doc[2]}
         /\ last' = Outcome("close_document", doc_id, TRUE, "", None, doc, 1)

\* a close_document that removes the entry in a finally clause
CloseDocument_finally(doc_id, raises) ==
    LET doc == get_document(documents, doc_id) IN
    IF Falsy(doc)
    THEN /\ last' = Outcome("close_document", doc_id, FALSE, "Document not found", None, None, 0)
         /\ UNCHANGED <<documents, remoteOpen>>
    ELSE IF raises
    THEN /\ last' = Outcome("close_document", doc_id, FALSE, "Failed to close document", None, doc, 1)
         /\ documents' = remove_document(documents, doc_id)
         /\ UNCHANGED remoteOpen
    ELSE /\ documents' = remove_document(documents, doc_id)
         /\ remoteOpen' = remoteOpen \ {doc[2]}
         /\ last' = Outcome("close_document", doc_id, TRUE, "", None, doc, 1)

\* close_document, for a caller holding the context (the tool's caller is the
\* server while it is serving, or any code that holds the context)
CloseDocument(doc_id, raises) ==
    LET doc == get_document(documents, doc_id) IN
    IF Falsy(doc)
    THEN /\ last' = Outcome("close_document", doc_id, FALSE, "Document not found", None, None, 0)
         /\ UNCHANGED <<documents, remoteOpen>>
    ELSE IF raises
    THEN /\ last' = Outcome("close_document", doc_id, FALSE, "Failed to close document", None, doc, 1)
         /\ UNCHANGED <<documents, remoteOpen>>
    ELSE /\ documents' = remove_document(documents, doc_id)
         /\ remoteOpen' = remoteOpen \ {doc[2]}
         /\ last' = Outcome("close_document", doc_id, TRUE, "", None, doc, 1)

close_document ==
    /\ phase = "serving"
    /\ \E doc_id \in IdArgs, raises \in BOOLEAN : CloseDocument(doc_id, raises)
    /\ UNCHANGED <<next_id, made, issued>>
    /\ UNCHANGED ServerState
    /\ UNCHANGED <<tpc, tloc>>
    /\ given' = NoInput

Registry == <<documents, next_id, made, remoteOpen, issued>>

\* save_document: looked up, then doc.save_doc inside try / except
save_document ==
    /\ phase = "serving"
    /\ \E doc_id \in IdArgs :
        LET doc == get_document(documents, doc_id) IN
        IF Falsy(doc)
        THEN last' = Outcome("save_document", doc_id, FALSE, "Document not found", None, None, 0)
        ELSE \E raises \in BOOLEAN :
                last' = IF raises
                        THEN Outcome("save_document", doc_id, FALSE, "Failed to save document", None, doc, 1)
                        ELSE Outcome("save_document", doc_id, TRUE, "", None, doc, 1)
    /\ UNCHANGED Registry
    /\ UNCHANGED ServerState
    /\ UNCHANGED <<tpc, tloc>>
    /\ given' = NoInput

(* ------------------------- document operations ------------------------- *)
\* a guarded tool that drops the entry it rejects
KindGuarded_evict(tool, cls, message) ==
    /\ phase = "serving"
    /\ \E doc_id \in IdArgs :
        LET doc == get_document(documents, doc_id) IN
        IF Falsy(doc) \/ ClassOf(doc) # cls
        THEN /\ last' = Outcome(tool, doc_id, FALSE, message, None, None, 0)
             /\ documents' = remove_document(documents, doc_id)
        ELSE /\ \E raises \in BOOLEAN :
                last' = IF raises
                        THEN Outcome(tool, doc_id, FALSE, "remote", None, doc, 1)
                        ELSE Outcome(tool, doc_id, TRUE, "", None, doc, 1)
             /\ UNCHANGED documents
    /\ UNCHANGED <<next_id, made, remoteOpen, issued>>
    /\ UNCHANGED ServerState
    /\ UNCHANGED <<tpc, tloc>>
    /\ given' = NoInput

\* a tool whose first statements are
\*     doc = app_ctx.get_document(doc_id)
\*     if not doc or not isinstance(doc, <cls>): raise ...(<message>)
\* followed by calls on doc that may raise
KindGuarded(tool, cls, message) ==
    /\ phase = "serving"
    /\ \E doc_id \in IdArgs :
        LET doc == get_document(documents, doc_id) IN
        IF Falsy(doc) \/ ClassOf(doc) # cls
        THEN last' = Outcome(tool, doc_id, FALSE, message, None, None, 0)
        ELSE \E raises \in BOOLEAN :
                last' = IF raises
                        THEN Outcome(tool, doc_id, FALSE, "remote", None, doc, 1)
                        ELSE Outcome(tool, doc_id, TRUE, "", None, doc, 1)
    /\ UNCHANGED Registry
    /\ UNCHANGED ServerState
    /\ UNCHANGED <<tpc, tloc>>
    /\ given' = NoInput

\* a tool whose first statements are
\*     doc = app_ctx.get_document(doc_id)
\*     if not doc: raise ...("Document not found")
\* followed by calls on doc that may raise
FoundGuarded(tool) ==
    /\ phase = "serving"
    /\ \E doc_id \in IdArgs :
        LET doc == get_document(documents, doc_id) IN
        IF Falsy(doc)
        THEN last' = Outcome(tool, doc_id, FALSE, "Document not found", None, None, 0)
        ELSE \E raises \in BOOLEAN :
                last' = IF raises
                        THEN Outcome(tool, doc_id, FALSE, "remote", None, doc, 1)
                        ELSE Outcome(tool, doc_id, TRUE, "", None, doc, 1)
    /\ UNCHANGED Registry
    /\ UNCHANGED ServerState
    /\ UNCHANGED <<tpc, tloc>>
    /\ given' = NoInput

NotSpreadsheet == "Document is not a spreadsheet"

NotText == "Document is not a text document"

\* a spreadsheet tool that takes a cell or range text: after the guard it
\* fetches the sheet with doc.sheets.get_by_name(sheet_name), and only then
\* hands the text, as received, to sheet[...] or sheet.rng(...)
RangeGuarded(tool) ==
    /\ phase = "serving"
    /\ \E doc_id \in IdArgs, text \in AddrArgs :
        LET doc == get_document(documents, doc_id) IN
        /\ IF Falsy(doc) \/ ClassOf(doc) # "CalcDoc"
           THEN last' = Outcome(tool, doc_id, FALSE, NotSpreadsheet, None, None, 0)
           ELSE \E raises \in BOOLEAN :
                   last' = IF raises
                           THEN Outcome(tool, doc_id, FALSE, "remote", None, doc, 1)
                           ELSE Outcome(tool, doc_id, TRUE, "", None, doc, 1)
        /\ given' = Input(<<text>>, <<>>)
    /\ UNCHANGED Registry
    /\ UNCHANGED ServerState
    /\ UNCHANGED <<tpc, tloc>>

get_sheet_names == KindGuarded("get_sheet_names", "CalcDoc", NotSpreadsheet)

get_cell_value == RangeGuarded("get_cell_value")

set_cell_value == RangeGuarded("set_cell_value")

create_new_sheet == KindGuarded("create_new_sheet", "CalcDoc", NotSpreadsheet)

create_pivot_table == RangeGuarded("create_pivot_table")

\* sort_range reaches sheet.rng(range_address) and then evaluates SortField,
\* a name the module never binds: the call always ends at that statement
sort_range ==
    /\ phase = "serving"
    /\ \E doc_id \in IdArgs, text \in AddrArgs :
        LET doc == get_document(documents, doc_id) IN
        /\ IF Falsy(doc) \/ ClassOf(doc) # "CalcDoc"
           THEN last' = Outcome("sort_range", doc_id, FALSE, NotSpreadsheet, None, None, 0)
           ELSE \E raises \in BOOLEAN :
                   last' = IF raises
                           THEN Outcome("sort_range", doc_id, FALSE, "remote", None, doc, 1)
                           ELSE Outcome("sort_range", doc_id, FALSE, "SortField", None, doc, 1)
        /\ given' = Input(<<text>>, <<>>)
    /\ UNCHANGED Registry
    /\ UNCHANGED ServerState
    /\ UNCHANGED <<tpc, tloc>>

RECURSIVE SumSeq(_)
SumSeq(values) == IF values = <<>> THEN 0 ELSE Head(values)[2] + SumSeq(Tail(values))

\* isinstance(cell.value, (int, float))
IsNumber(v) == v[1] = "float"

\* statistics that divide by the number of cells of the range
Stats_all(cells) ==
    LET values == SelectSeq(cells, IsNumber) IN
    IF values = <<>>
    THEN [sum |-> 0, average |-> <<0, 1>>]
    ELSE [sum |-> SumSeq(values), average |-> <<SumSeq(values), Len(cells)>>]

\* lines 332-337 of calculate_statistics; the average total / len(values)
\* is kept as the fraction <<total, len(values)>>, and 0.0 as <<0, 1>>
Stats(cells) ==
    LET values == SelectSeq(cells, IsNumber) IN
    IF values = <<>>
    THEN [sum |-> 0, average |-> <<0, 1>>]
    ELSE [sum |-> SumSeq(values), average |-> <<SumSeq(values), Len(values)>>]

\* the cell values a range can hold
CellSeqs == UNION {[1..n -> CellValues] : n \in 0..MaxCells}

\* calculate_statistics: raises stands for an exception of get_by_name, rng
\* or of reading the cells
calculate_statistics ==
    /\ phase = "serving"
    /\ \E doc_id \in IdArgs, text \in AddrArgs :
        LET doc == get_document(documents, doc_id) IN
        IF Falsy(doc) \/ ClassOf(doc) # "CalcDoc"
        THEN /\ last' = Outcome("calculate_statistics", doc_id, FALSE, NotSpreadsheet, None, None, 0)
             /\ given' = Input(<<text>>, <<>>)
        ELSE \/ /\ last' = Outcome("calculate_statistics", doc_id, FALSE, "remote", None, doc, 1)
                /\ given' = Input(<<text>>, <<>>)
             \/ \E cells \in CellSeqs :
                /\ last' = Outcome("calculate_statistics", doc_id, TRUE, "", Stats(cells), doc, 1)
                /\ given' = Input(<<text>>, cells)
    /\ UNCHANGED Registry
    /\ UNCHANGED ServerState
    /\ UNCHANGED <<tpc, tloc>>

insert_form_control == RangeGuarded("insert_form_control")

format_cell_range == RangeGuarded("format_cell_range")

conditional_format == RangeGuarded("conditional_format")

create_chart == RangeGuarded("create_chart")

insert_text == KindGuarded("insert_text", "WriteDoc", NotText)

apply_style == KindGuarded("apply_style", "WriteDoc", NotText)

run_query == FoundGuarded("run_query")

list_tables == FoundGuarded("list_tables")

create_table == FoundGuarded("create_table")

insert_data == FoundGuarded("insert_data")

create_form == FoundGuarded("create_form")

create_report == FoundGuarded("create_report")

run_macro == FoundGuarded("run_macro")

\* the class of document each operation of the catalog is for, as its
\* section heading and docstring say ("Any": any document)
SpreadsheetOps == {"get_sheet_names", "get_cell_value", "set_cell_value", "create_new_sheet",
                   "create_pivot_table", "sort_range", "calculate_statistics",
                   "insert_form_control", "format_cell_range", "conditional_format",
                   "create_chart"}

TextOps == {"insert_text", "apply_style"}

DatabaseOps == {"run_query", "list_tables", "create_table", "insert_data",
                "create_form", "create_report"}

RequiredClass(tool) ==
    IF tool \in SpreadsheetOps THEN "CalcDoc"
    ELSE IF tool \in TextOps THEN "WriteDoc"
    ELSE IF tool \in DatabaseOps THEN "XComponent"
    ELSE "Any"

(* ------------------------------ lifespan ------------------------------- *)
\* a lifespan whose except clause swallows the connection failure and goes
\* on to yield the context
LifespanStart_yield_anyway ==
    /\ phase = "start"
    /\ \E reach \in BOOLEAN :
        LET r == start_office(loader, attempts, reach) IN
        /\ loader' = r.loader
        /\ attempts' = attempts + r.calls
        /\ last' = Outcome("start_office", "", ~r.raised,
                           IF r.raised THEN "Failed to connect" ELSE "", r.ret, None, r.calls)
        /\ phase' = "serving"
        /\ todo' = todo
    /\ UNCHANGED <<teardowns, pos>>
    /\ UNCHANGED Registry
    /\ UNCHANGED <<tpc, tloc>>
    /\ given' = NoInput

\* app_lifespan up to the yield: start_office(); when it raises, the except
\* clause logs and re-raises and the finally clause runs on an empty store
LifespanStart ==
    /\ phase = "start"
    /\ \E reach \in BOOLEAN :
        LET r == start_office(loader, attempts, reach) IN
        /\ loader' = r.loader
        /\ attempts' = attempts + r.calls
        /\ last' = Outcome("start_office", "", ~r.raised,
                           IF r.raised THEN "Failed to connect" ELSE "", r.ret, None, r.calls)
        /\ phase' = IF r.raised THEN "draining" ELSE "serving"
        /\ todo' = IF r.raised THEN KeysList(documents) ELSE todo
    /\ UNCHANGED <<teardowns, pos>>
    /\ UNCHANGED Registry
    /\ UNCHANGED <<tpc, tloc>>
    /\ given' = NoInput

\* the server stops: control enters the finally clause, which takes
\* list(app_ctx.documents.keys())
LifespanExit ==
    /\ phase = "serving"
    /\ phase' = "draining"
    /\ todo' = KeysList(documents)
    /\ last' = Outcome("shutdown", "", TRUE, "", None, None, 0)
    /\ UNCHANGED <<loader, attempts, teardowns, pos>>
    /\ UNCHANGED Registry
    /\ UNCHANGED <<tpc, tloc>>
    /\ given' = NoInput

\* one iteration of the finally loop (todo is the list being iterated, pos
\* the number of its elements already visited): get_document, close_doc
\* when truthy, remove_document.  close_doc is not inside a try: when it
\* raises, the exception leaves app_lifespan and nothing after it runs.
LifespanDrainDoc ==
    /\ phase = "draining"
    /\ pos < Len(todo)
    /\ \E raises \in BOOLEAN :
        LET doc_id == todo[pos + 1]
            doc == get_document(documents, doc_id)
        IN IF ~Falsy(doc) /\ raises
           THEN /\ phase' = "aborted"
                /\ last' = Outcome("shutdown_close", doc_id, FALSE, "remote", None, doc, 1)
                /\ UNCHANGED <<documents, remoteOpen, pos>>
           ELSE /\ documents' = remove_document(documents, doc_id)
                /\ remoteOpen' = IF Falsy(doc) THEN remoteOpen ELSE remoteOpen \ {doc[2]}
                /\ pos' = pos + 1
                /\ last' = Outcome("shutdown_close", doc_id, TRUE, "", None, doc,
                                   IF Falsy(doc) THEN 0 ELSE 1)
                /\ UNCHANGED phase
    /\ UNCHANGED <<loader, attempts, teardowns, todo, next_id, made, issued>>
    /\ UNCHANGED <<tpc, tloc>>
    /\ given' = NoInput

\* a shutdown that disconnects without waiting for the loop to end
LifespanCloseOffice_early ==
    /\ phase = "draining"
    /\ LET r == close_office(loader) IN
        /\ loader' = r.loader
        /\ teardowns' = teardowns + r.calls
        /\ last' = Outcome("close_office", "", TRUE, "", None, None, r.calls)
    /\ phase' = "done"
    /\ UNCHANGED <<attempts, todo, pos>>
    /\ UNCHANGED Registry
    /\ UNCHANGED <<tpc, tloc>>
    /\ given' = NoInput

\* after the loop: app_ctx.close_office()
LifespanCloseOffice ==
    /\ phase = "draining"
    /\ pos = Len(todo)
    /\ LET r == close_office(loader) IN
        /\ loader' = r.loader
        /\ teardowns' = teardowns + r.calls
        /\ last' = Outcome("close_office", "", TRUE, "", None, None, r.calls)
    /\ phase' = "done"
    /\ UNCHANGED <<attempts, todo, pos>>
    /\ UNCHANGED Registry
    /\ UNCHANGED <<tpc, tloc>>
    /\ given' = NoInput

Next ==
    \/ LifespanStart
    \/ open_document
    \/ new_document
    \/ save_document
    \/ close_document
    \/ get_sheet_names
    \/ get_cell_value
    \/ set_cell_value
    \/ create_new_sheet
    \/ create_pivot_table
    \/ sort_range
    \/ calculate_statistics
    \/ run_query
    \/ list_tables
    \/ create_table
    \/ insert_data
    \/ create_form
    \/ create_report
    \/ insert_text
    \/ apply_style
    \/ run_macro
    \/ insert_form_control
    \/ format_cell_range
    \/ conditional_format
    \/ create_chart
    \/ LifespanExit
    \/ LifespanDrainDoc
    \/ LifespanCloseOffice

Spec == Init /\ [][Next]_vars

(* ---------------- AppContext driven by an arbitrary caller ------------- *)
\* A second specification: the public methods of AppContext, and
\* close_document on top of them, called in any order with any arguments.

\* arguments a direct caller passes to add_document
ApiIds == {DocId(0), DocId(1)}

ApiDocs == {Doc(cls, h) : cls \in {"CalcDoc", "WriteDoc"}, h \in {1, 2}}

InitApi ==
    /\ phase = "api"
    /\ loader = None
    /\ documents = [x \in {} |-> None]
    /\ next_id = 0
    /\ made = 0
    /\ remoteOpen = {}
    /\ attempts = 0
    /\ teardowns = 0
    /\ todo = <<>>
    /\ pos = 0
    /\ issued = <<>>
    /\ last = NoCall
    /\ given = NoInput
    /\ tpc = Idle
    /\ tloc = NoLocals

api_start_office ==
    /\ attempts < MaxAttempts
    /\ \E reach \in BOOLEAN :
        LET r == start_office(loader, attempts, reach) IN
        /\ loader' = r.loader
        /\ attempts' = attempts + r.calls
        /\ last' = Outcome("start_office", "", ~r.raised,
                           IF r.raised THEN "Failed to connect" ELSE "", r.ret, None, r.calls)
    /\ UNCHANGED <<phase, teardowns, todo, pos>>
    /\ UNCHANGED Registry
    /\ UNCHANGED <<tpc, tloc>>
    /\ given' = NoInput

api_close_office ==
    /\ teardowns <= MaxAttempts
    /\ LET r == close_office(loader) IN
        /\ loader' = r.loader
        /\ teardowns' = teardowns + r.calls
        /\ last' = Outcome("close_office", "", TRUE, "", None, None, r.calls)
    /\ UNCHANGED <<phase, attempts, todo, pos>>
    /\ UNCHANGED Registry
    /\ UNCHANGED <<tpc, tloc>>
    /\ given' = NoInput

api_get_document ==
    /\ \E doc_id \in ApiIds :
        last' = Outcome("get_document", doc_id, TRUE, "", get_document(documents, doc_id), None, 0)
    /\ UNCHANGED <<phase, loader, attempts, teardowns, todo, pos>>
    /\ UNCHANGED Registry
    /\ UNCHANGED <<tpc, tloc>>
    /\ given' = NoInput

api_add_document ==
    /\ \E doc_id \in ApiIds, doc \in ApiDocs :
        /\ documents' = add_document(documents, doc_id, doc)
        /\ last' = Outcome("add_document", doc_id, TRUE, "", None, None, 0)
    /\ UNCHANGED <<phase, loader, attempts, teardowns, todo, pos>>
    /\ UNCHANGED <<next_id, made, remoteOpen, issued>>
    /\ UNCHANGED <<tpc, tloc>>
    /\ given' = NoInput

\* self.documents.pop(doc_id, None): the default makes pop return None for
\* a key that is not there, and the method returns nothing either way
api_remove_document ==
    /\ \E doc_id \in ApiIds :
        /\ documents' = remove_document(documents, doc_id)
        /\ last' = Outcome("remove_document", doc_id, TRUE, "", None, None, 0)
    /\ UNCHANGED <<phase, loader, attempts, teardowns, todo, pos>>
    /\ UNCHANGED <<next_id, made, remoteOpen, issued>>
    /\ UNCHANGED <<tpc, tloc>>
    /\ given' = NoInput

api_close_document ==
    /\ \E doc_id \in ApiIds, raises \in BOOLEAN : CloseDocument(doc_id, raises)
    /\ UNCHANGED <<phase, loader, attempts, teardowns, todo, pos>>
    /\ UNCHANGED <<next_id, made, issued>>
    /\ UNCHANGED <<tpc, tloc>>
    /\ given' = NoInput

NextApi ==
    \/ api_start_office
    \/ api_close_office
    \/ api_get_document
    \/ api_add_document
    \/ api_remove_document
    \/ api_close_document

SpecApi == InitApi /\ [][NextApi]_vars

(* ------------------- the tools run by several threads ------------------ *)
\* A third specification: AppContext holds no lock, so when the transport
\* runs tool calls on several threads the statements of open_document /
\* new_document and of close_document interleave.  A thread switch can fall
\* between any two statements, and between the read and the write of
\* `app_ctx.next_id += 1`.

Frame == <<phase, loader, attempts, teardowns, todo, pos, given>>

\* up to the remote open / create call (lines 167-181, 193-207)
T_open_call(t) ==
    /\ phase = "serving"
    /\ tpc[t] = "idle"
    /\ \E tool \in {"open_document", "new_document"}, doc_type \in DocTypeArgs, raises \in BOOLEAN :
        IF doc_type \notin DOMAIN doc_types
        THEN /\ last' = Outcome(tool, doc_type, FALSE, "Invalid document type", None, None, 0)
             /\ UNCHANGED <<made, remoteOpen, tpc, tloc>>
        ELSE IF raises
        THEN /\ last' = Outcome(tool, doc_type, FALSE,
                                IF tool = "open_document" THEN "Failed to open document"
                                ELSE "Failed to create new document", None, None, 1)
             /\ UNCHANGED <<made, remoteOpen, tpc, tloc>>
        ELSE /\ made < MaxDocs
             /\ made' = made + 1
             /\ remoteOpen' = remoteOpen \cup {made + 1}
             /\ tloc' = [tloc EXCEPT ![t] = [tool |-> tool, arg |-> doc_type,
                                             doc |-> Doc(doc_types[doc_type], made + 1),
                                             doc_id |-> "", tmp |-> 0]]
             /\ tpc' = [tpc EXCEPT ![t] = "open_format"]
             /\ UNCHANGED last
    /\ UNCHANGED <<documents, next_id, issued>>
    /\ UNCHANGED Frame

\* doc_id = f"doc_{app_ctx.next_id}"
T_open_format(t) ==
    /\ tpc[t] = "open_format"
    /\ tloc' = [tloc EXCEPT ![t].doc_id = DocId(next_id)]
    /\ tpc' = [tpc EXCEPT ![t] = "open_load"]
    /\ UNCHANGED <<documents, next_id, made, remoteOpen, issued, last>>
    /\ UNCHANGED Frame

\* app_ctx.next_id += 1, the read
T_open_load(t) ==
    /\ tpc[t] = "open_load"
    /\ tloc' = [tloc EXCEPT ![t].tmp = next_id]
    /\ tpc' = [tpc EXCEPT ![t] = "open_store"]
    /\ UNCHANGED <<documents, next_id, made, remoteOpen, issued, last>>
    /\ UNCHANGED Frame

\* app_ctx.next_id += 1, the write
T_open_store(t) ==
    /\ tpc[t] = "open_store"
    /\ next_id' = tloc[t].tmp + 1
    /\ tpc' = [tpc EXCEPT ![t] = "open_add"]
    /\ UNCHANGED <<documents, made, remoteOpen, issued, last, tloc>>
    /\ UNCHANGED Frame

\* app_ctx.add_document(doc_id, doc); return doc_id
T_open_add(t) ==
    /\ tpc[t] = "open_add"
    /\ documents' = add_document(documents, tloc[t].doc_id, tloc[t].doc)
    /\ issued' = Append(issued, tloc[t].doc_id)
    /\ last' = Outcome(tloc[t].tool, tloc[t].arg, TRUE, "", tloc[t].doc_id, None, 1)
    /\ tpc' = [tpc EXCEPT ![t] = "idle"]
    /\ tloc' = [tloc EXCEPT ![t] = NoLocals[t]]
    /\ UNCHANGED <<next_id, made, remoteOpen>>
    /\ UNCHANGED Frame

\* close_document up to the test of the lookup (lines 231-234)
T_close_get(t) ==
    /\ phase = "serving"
    /\ tpc[t] = "idle"
    /\ \E doc_id \in IdArgs :
        LET doc == get_document(documents, doc_id) IN
        IF Falsy(doc)
        THEN /\ last' = Outcome("close_document", doc_id, FALSE, "Document not found", None, None, 0)
             /\ UNCHANGED <<tpc, tloc>>
        ELSE /\ tloc' = [tloc EXCEPT ![t] = [tool |-> "close_document", arg |-> doc_id,
                                             doc |-> doc, doc_id |-> doc_id, tmp |-> 0]]
             /\ tpc' = [tpc EXCEPT ![t] = "close_doc"]
             /\ UNCHANGED last
    /\ UNCHANGED <<documents, next_id, made, remoteOpen, issued>>
    /\ UNCHANGED Frame

\* doc.close_doc() inside the try (line 236)
T_close_doc(t) ==
    /\ tpc[t] = "close_doc"
    /\ \E raises \in BOOLEAN :
        IF raises
        THEN /\ last' = Outcome("close_document", tloc[t].doc_id, FALSE,
                                "Failed to close document", None, tloc[t].doc, 1)
             /\ tpc' = [tpc EXCEPT ![t] = "idle"]
             /\ tloc' = [tloc EXCEPT ![t] = NoLocals[t]]
             /\ UNCHANGED remoteOpen
        ELSE /\ remoteOpen' = remoteOpen \ {tloc[t].doc[2]}
             /\ tpc' = [tpc EXCEPT ![t] = "close_remove"]
             /\ UNCHANGED <<last, tloc>>
    /\ UNCHANGED <<documents, next_id, made, issued>>
    /\ UNCHANGED Frame

\* app_ctx.remove_document(doc_id); return (lines 237-238)
T_close_remove(t) ==
    /\ tpc[t] = "close_remove"
    /\ documents' = remove_document(documents, tloc[t].doc_id)
    /\ last' = Outcome("close_document", tloc[t].doc_id, TRUE, "", None, tloc[t].doc, 1)
    /\ tpc' = [tpc EXCEPT ![t] = "idle"]
    /\ tloc' = [tloc EXCEPT ![t] = NoLocals[t]]
    /\ UNCHANGED <<next_id, made, remoteOpen, issued>>
    /\ UNCHANGED Frame

NextThreads ==
    \/ LifespanStart
    \/ \E t \in Threads : T_open_call(t)
    \/ \E t \in Threads : T_open_format(t)
    \/ \E t \in Threads : T_open_load(t)
    \/ \E t \in Threads : T_open_store(t)
    \/ \E t \in Threads : T_open_add(t)
    \/ \E t \in Threads : T_close_get(t)
    \/ \E t \in Threads : T_close_doc(t)
    \/ \E t \in Threads : T_close_remove(t)

SpecThreads == Init /\ [][NextThreads]_vars

(* ------------------------------ properties ----------------------------- *)
\* the number at the end of a returned identifier
Suffix(s) == CHOOSE k \in 0..(MaxDocs + 1) : s = "doc_" \o ToString(k)

EmptyStore == DOMAIN documents = {}

\* C1: the numeric suffixes of the identifiers returned by successful
\* open_document / new_document calls are strictly increasing, whatever
\* closes happen in between, so no identifier is returned twice.
C1_IdsStrictlyIncreasing ==
    \A i, j \in 1..Len(issued) : i < j => Suffix(issued[i]) < Suffix(issued[j])

\* two identifiers were returned, the second one by a create that came after
\* the first session had been closed
C1_Witness ==
    /\ Len(issued) = 2
    /\ issued[1] \notin DOMAIN documents
    /\ last.tool = "new_document" /\ last.ok /\ last.ret = issued[2]

\* C2 (as claimed): whenever an operation of the catalog has run against a
\* document, the class of that document is the class the operation is for.
C2_NoWrongKindExecution ==
    (last.target # None /\ RequiredClass(last.tool) # "Any")
        => ClassOf(last.target) = RequiredClass(last.tool)

\* C3 (as claimed): a dispatch rejected before any remote call reports a
\* missing session as "not found" and reports a session of the wrong kind as
\* something else, so that the two can be told apart.
C3_NotFoundDistinctFromMismatch ==
    [][(last'.tool \in SpreadsheetOps \cup TextOps \cup DatabaseOps
            /\ ~last'.ok /\ last'.remote = 0)
        => IF last'.arg \in DOMAIN documents
           THEN last'.err # "Document not found"
           ELSE last'.err = "Document not found"]_vars

\* C4: an identifier that was returned and is no longer in the store never
\* comes back into the store, and every operation given that identifier
\* afterwards finds no document.
C4_RemovedStaysRemoved ==
    [][\A i \in 1..Len(issued) :
          issued[i] \notin DOMAIN documents
            => /\ issued[i] \notin DOMAIN documents'
               /\ last'.arg = issued[i] => (~last'.ok /\ last'.target = None)]_vars

\* a lookup of the first identifier failed after that session was closed and
\* another session was registered
C4_Witness ==
    /\ Len(issued) = 2
    /\ issued[1] \notin DOMAIN documents
    /\ last.tool = "save_document" /\ last.arg = issued[1]
    /\ ~last.ok /\ last.err = "Document not found"

C6_DrainBeforeDisconnect ==
    [][(phase = "draining" /\ last'.tool = "close_office")
        => /\ pos = Len(todo)
           /\ EmptyStore
           /\ remoteOpen = {}]_vars

\* shutdown found two open sessions and has disconnected
C6_Witness ==
    /\ phase = "done"
    /\ Len(todo) = 2 /\ pos = 2
    /\ teardowns = 1 /\ loader = None

\* C7 (as claimed): when shutdown has ended, by completing or by an error
\* leaving it, the store is empty and the connection is closed.
C7_ShutdownLeavesNothing ==
    phase \in {"done", "aborted"} => (EmptyStore /\ loader = None)

\* C8: a start_office call made while disconnected makes exactly one
\* connection attempt; when the attempt fails the call raises and the
\* loader stays None, so the next call attempts again.
C8_ConnectFailure ==
    [][(last'.tool = "start_office" /\ loader = None)
        => /\ attempts' = attempts + 1
           /\ last'.remote = 1
           /\ last'.ok <=> loader' # None
           /\ ~last'.ok => last'.ret = None]_vars

\* a second attempt was made after a failed one, and failed too
C8_Witness ==
    /\ last.tool = "start_office" /\ ~last.ok
    /\ attempts = 2 /\ teardowns = 0 /\ loader = None

\* C9: a start_office call made while connected makes no connection
\* attempt, leaves the loader as it is and returns it.
C9_ConnectIdempotent ==
    [][(last'.tool = "start_office" /\ loader # None)
        => /\ attempts' = attempts
           /\ loader' = loader
           /\ last'.ok /\ last'.ret = loader /\ last'.remote = 0]_vars

\* start_office returned the existing loader without an attempt
C9_Witness ==
    /\ last.tool = "start_office" /\ last.ok
    /\ last.remote = 0 /\ loader # None /\ last.ret = loader

\* C10: close_office never raises and leaves the loader None; while
\* disconnected it makes no teardown call, while connected it makes one.
C10_DisconnectIdempotent ==
    [][last'.tool = "close_office"
        => /\ last'.ok /\ loader' = None
           /\ IF loader = None
              THEN teardowns' = teardowns /\ last'.remote = 0
              ELSE teardowns' = teardowns + 1 /\ last'.remote = 1]_vars

\* close_office was called again after a close_office that disconnected
C10_Witness ==
    /\ last.tool = "close_office" /\ last.remote = 0
    /\ teardowns >= 1 /\ loader = None

\* C11: a session is registered only while the connection is up: every
\* open_document / new_document step that registers a document starts with
\* the loader set by a successful connect and no disconnect made.
C11_RegisterOnlyConnected ==
    [][(/\ next_id' # next_id \/ documents' # documents
        /\ last'.tool \in {"open_document", "new_document"}
        /\ last'.ok)
        => (loader # None /\ attempts >= 1 /\ teardowns = 0)]_vars

\* a document was opened and registered over the live connection
C11_Witness ==
    /\ last.tool = "open_document" /\ last.ok
    /\ last.ret \in DOMAIN documents
    /\ loader # None

\* C12: every key of the store is doc_k for some 0 <= k < next_id, although
\* callers send other identifiers to the tools.
C12_KeysFromAllocator ==
    \A id \in DOMAIN documents :
        \E k \in 0..next_id : k < next_id /\ id = "doc_" \o ToString(k)

\* two sessions are registered and a call with an identifier that was never
\* allocated has been made
C12_Witness ==
    /\ Cardinality(DOMAIN documents) = 2
    /\ last.tool = "save_document" /\ last.arg = "bogus"

\* C13: a registered document gets the class its doc_type stands for, and
\* keeps the same object, hence the same class, for as long as its
\* identifier is in the store.
C13_KindFixed ==
    [][/\ \A id \in DOMAIN documents \cap DOMAIN documents' :
              documents'[id] = documents[id]
       /\ (last'.tool \in {"open_document", "new_document"} /\ last'.ok /\ last' # last)
              => ClassOf(documents'[last'.ret]) = doc_types[last'.arg]]_vars

\* a second document of another class was registered while the first one
\* stayed in the store
C13_Witness ==
    /\ Cardinality(DOMAIN documents) = 2
    /\ ClassOf(documents["doc_0"]) # ClassOf(documents["doc_1"])
    /\ last.tool = "new_document" /\ last.ok

\* C14 (as claimed): no interleaving of concurrent calls lets two
\* registrations return the same identifier.
C14_NoSharedIdentifier ==
    \A i, j \in 1..Len(issued) : i # j => issued[i] # issued[j]

\* the spreadsheet tools that take a cell or range text
RangeOps == SpreadsheetOps \ {"get_sheet_names", "create_new_sheet"}

\* a cell text that is not one letter followed by the digits of a row >= 1
MalformedCell(s) ==
    ~ /\ Len(s) >= 2
      /\ s[1] \in {"A", "B", "C"}
      /\ \A i \in 2..Len(s) : s[i] \in {"0", "1", "2", "3", "4", "5", "6", "7", "8", "9"}
      /\ \E i \in 2..Len(s) : s[i] # "0"

\* C15 (as claimed): a range tool called on a spreadsheet session with a
\* malformed cell text fails with InvalidAddress before it has made any
\* remote call.
C15_MalformedRejectedFirst ==
    [][(/\ last'.tool \in RangeOps
        /\ given'.text # <<>>
        /\ MalformedCell(given'.text[1])
        /\ last'.arg \in DOMAIN documents
        /\ ClassOf(documents[last'.arg]) = "CalcDoc")
        => (~last'.ok /\ last'.err = "InvalidAddress" /\ last'.remote = 0)]_vars

\* C17: a calculate_statistics call that returns gives sum 0 and average 0
\* when no cell of the range is a number, and otherwise the total of the
\* numeric cells and that total divided by their count; the call itself
\* raises nothing after the guard (only the engine can).
C17_Statistics ==
    [][last'.tool = "calculate_statistics"
        => IF last'.ok
           THEN LET cells == given'.cells
                    numeric == {i \in 1..Len(cells) : cells[i][1] = "float"}
                    count == Cardinality(numeric)
                    total == SumSeq(SelectSeq(cells, LAMBDA v : v[1] = "float"))
                IN IF count = 0
                   THEN last'.ret.sum = 0 /\ last'.ret.average[1] = 0
                   ELSE /\ last'.ret.sum = total
                        /\ last'.ret.average[2] # 0
                        /\ last'.ret.average[1] * count = total * last'.ret.average[2]
           ELSE last'.err \in {NotSpreadsheet, "remote"}]_vars

\* statistics were returned for a range holding no number
C17_Witness ==
    /\ last.tool = "calculate_statistics" /\ last.ok
    /\ given.cells = <<(<<"str">>)>>
    /\ last.ret.sum = 0

\* C18: an open_document / new_document call that fails, on the doc_type
\* or in the remote call, leaves the store and the counter as they were.
C18_FailedOpenChangesNothing ==
    [][(last'.tool \in {"open_document", "new_document"} /\ ~last'.ok)
        => (documents' = documents /\ next_id' = next_id /\ issued' = issued)]_vars

\* a remote open failed after one document had been registered
C18_Witness ==
    /\ last.tool = "open_document" /\ ~last.ok
    /\ last.err = "Failed to open document"
    /\ next_id = 1 /\ Cardinality(DOMAIN documents) = 1

\* C19: the store and the counter change only in a successful
\* open_document, new_document or close_document, or in the shutdown loop.
C19_OnlyLifecycleChangesRegistry ==
    [][(documents' # documents \/ next_id' # next_id)
        => /\ last'.ok
           /\ last'.tool \in {"open_document", "new_document", "close_document",
                              "shutdown_close"}]_vars

\* a text operation was refused on a session of another kind, which is
\* still registered
C19_Witness ==
    /\ last.tool = "insert_text" /\ ~last.ok /\ last.err = NotText
    /\ last.arg \in DOMAIN documents

\* C20: close_document on a registered identifier always calls the remote
\* close; when that call fails the tool fails with "Failed to close
\* document" and the entry stays as it was.
C20_FailedCloseKeepsSession ==
    [][(last'.tool = "close_document" /\ last'.arg \in DOMAIN documents)
        => /\ last'.remote = 1
           /\ \/ last'.ok
              \/ /\ last'.err = "Failed to close document"
                 /\ documents' = documents
                 /\ remoteOpen' = remoteOpen]_vars

\* a close failed in the remote call and the session is still registered
C20_Witness ==
    /\ last.tool = "close_document" /\ ~last.ok
    /\ last.err = "Failed to close document"
    /\ last.arg \in DOMAIN documents
    /\ documents[last.arg] = last.target

\* thread s runs a close_document call on doc_id that has passed its lookup
\* (`if not doc` found the session registered) and has not returned yet
PastLookup(s, doc_id) ==
    /\ tpc[s] \in {"close_doc", "close_remove"}
    /\ tloc[s].doc_id = doc_id

\* C21 (as claimed): of two close_document calls on the same registered
\* identifier that run at the same time, one alone closes the remote
\* document and reports success, and the other reports "Document not
\* found": when a call invokes the remote close or returns "Document ...
\* closed", no other call on that identifier has passed its lookup, since
\* such a call goes on to close_doc() too and can no longer report
\* "Document not found".
C21_ConcurrentCloseOnce ==
    [][\A t \in Threads :
        (\/ tpc[t] = "close_doc" /\ tpc'[t] # "close_doc"
         \/ tpc[t] = "close_remove" /\ tpc'[t] = "idle")
        => \A s \in Threads \ {t} : ~PastLookup(s, tloc[t].doc_id)]_vars
====
